---- MODULE Spec2Model ----
(***************************************************************************)
(* CodeModeClient (python/src/code_mode/code_mode_client.py): the tool     *)
(* registry, the per-call execution context and the execution engine       *)
(* call_tool_chain / _run_code, as a state machine.                        *)
(*                                                                         *)
(* Text is a sequence of tokens.  A token is a string standing for a run   *)
(* of characters of one class: identifier characters starting with a       *)
(* letter or '_' (WordTokens), identifier characters starting with a       *)
(* digit (DigitTokens), or a single other character.                       *)
(***************************************************************************)
EXTENDS Integers, Sequences, FiniteSets, TLC

\* ------------------------------------------------------------------ bounds
MaxTools == 1
MaxSteps == 1
\* the registrations and the statements of the smaller specifications
MaxList == 2
MaxWrites == 2
\* the characters of an identifier to sanitize, the entries of a 'type' list
MaxLen == 3
MaxTypes == 2
\* the properties of an object schema
MaxProps == 2

\* ------------------------------------------------------------------ text
None == <<"None">>

DigitTokens == {"1", "30", "42"}
OtherTokens == {".", "-", " ", "\n", "'", ":"}
Whitespace == {" ", "\n"}

IsIdentToken(c) == c \notin OtherTokens
IsDigitToken(c) == c \in DigitTokens

RECURSIVE Concat(_)
Concat(ss) == IF ss = <<>> THEN <<>> ELSE Head(ss) \o Concat(Tail(ss))

RECURSIVE Join(_, _)
Join(ss, sep) ==
    IF ss = <<>> THEN <<>>
    ELSE IF Len(ss) = 1 THEN ss[1]
    ELSE ss[1] \o sep \o Join(Tail(ss), sep)

\* str.rstrip(): drop the trailing whitespace
RECURSIVE RStrip(_)
RStrip(s) ==
    IF s = <<>> THEN <<>>
    ELSE IF s[Len(s)] \in Whitespace THEN RStrip(SubSeq(s, 1, Len(s) - 1))
    ELSE s

\* str.split(sep): always at least one piece, pieces may be empty
RECURSIVE SplitAcc(_, _, _)
SplitAcc(s, sep, cur) ==
    IF s = <<>> THEN <<cur>>
    ELSE IF Head(s) = sep THEN <<cur>> \o SplitAcc(Tail(s), sep, <<>>)
    ELSE SplitAcc(Tail(s), sep, Append(cur, Head(s)))

Split(s, sep) == SplitAcc(s, sep, <<>>)

HasDot(name) == \E i \in 1..Len(name) : name[i] = "."

EmptyMap == [x \in {} |-> <<>>]

PutIfAbsent(f, k, v) == [x \in (DOMAIN f) \cup {k} |-> IF x \in DOMAIN f THEN f[x] ELSE v]

\* d[k] = v on a dict
Put(f, k, v) == [x \in (DOMAIN f) \cup {k} |-> IF x = k THEN v ELSE f[x]]

\* ------------------------------------------------------------------ tools
\* A JSON schema (a dict): keys is the set of keys present; type is the
\* value of 'type' (one name, or a list of names when type_list),
\* properties the items of 'properties' in insertion order.
Schema(keys, type, type_list, properties, required, enum, description) ==
    [keys |-> keys, type |-> type, type_list |-> type_list, properties |-> properties,
     required |-> required, enum |-> enum, description |-> description]

EmptySchema == Schema({}, <<>>, FALSE, <<>>, <<>>, <<>>, <<>>)

PropSchema(type, description) ==
    Schema({"type", "description"}, <<type>>, FALSE, <<>>, <<>>, <<>>, description)

Prop(n, s) == [name |-> n, schema |-> s]

ObjectSchema(properties, required) ==
    Schema({"type", "properties", "required"}, <<"object">>, FALSE, properties, required,
           <<>>, <<>>)

\* Tool(name, description, inputs, outputs, tags, tool_call_template)
Tool(n, d, i, o, t) ==
    [name |-> n, description |-> d, inputs |-> i, outputs |-> o, tags |-> t]

NsF == <<"ns", ".", "f">>
LenX == <<"len", ".", "x">>

ToolNames == {NsF, LenX}

SchemaA == ObjectSchema(<<Prop(<<"a">>, PropSchema("number", <<"first">>))>>, <<<<"a">>>>)
SchemaR == ObjectSchema(<<Prop(<<"r">>, PropSchema("string", <<"out">>))>>, <<>>)

ToolDefs ==
    {Tool(NsF, <<"d1">>, SchemaA, SchemaR, <<<<"math">>>>),
     Tool(LenX, <<"d3">>, SchemaA, EmptySchema, <<>>)}

JsonX == <<"json", ".", "x">>
Add == <<"add">>

\* more tools: a namespace that is a module of the base context, a name
\* without namespace, and ns.f with another description, schemas and tags
MoreToolDefs ==
    {Tool(JsonX, <<"d4">>, EmptySchema, SchemaR, <<>>),
     Tool(Add, <<"d5">>, SchemaA, SchemaR, <<<<"math">>, <<"core">>>>),
     Tool(NsF, <<"d2">>, EmptySchema, SchemaA, <<>>)}

\* the async callables a caller registers, their arguments and results
Fns == {"f1", "f2"}
Args == {<<"a1">>, <<"a2">>}
Values == {<<"v1">>, <<"v2">>}

\* ------------------------------------------------------------------ interface text
\* _sanitize_identifier
SanitizeIdentifier(name) ==
    LET sanitized == [i \in 1..Len(name) |-> IF IsIdentToken(name[i]) THEN name[i] ELSE "_"]
    IN  IF sanitized # <<>> /\ IsDigitToken(sanitized[1]) THEN <<"_">> \o sanitized
        ELSE sanitized

\* parts[0] of name.split('.'), sanitized
ManualName(name) == SanitizeIdentifier(Split(name, ".")[1])

\* '_'.join(sanitize(p) for p in parts[1:])
LeafName(name) ==
    LET parts == Tail(Split(name, "."))
    IN  Join([i \in 1..Len(parts) |-> SanitizeIdentifier(parts[i])], <<"_">>)

TypeMap(t) ==
    CASE t = "string" -> "str"
      [] t = "number" -> "float"
      [] t = "integer" -> "int"
      [] t = "boolean" -> "bool"
      [] t = "array" -> "list"
      [] t = "object" -> "dict"
      [] t = "null" -> "None"
      [] OTHER -> "Any"

\* _json_type_to_python
JsonTypeToPython(schema) ==
    IF schema.enum # <<>> THEN <<"str">>
    ELSE IF schema.type_list
         THEN Join([i \in 1..Len(schema.type) |-> <<TypeMap(schema.type[i])>>], <<" | ">>)
    ELSE IF schema.type = <<>> THEN <<"Any">>
    ELSE <<TypeMap(schema.type[1])>>

PropLineNoMarker(p, required) ==
    <<"            ">> \o p.name \o <<" (">> \o JsonTypeToPython(p.schema) \o <<")">>
        \o <<": ">> \o p.schema.description

\* one line of the loop over properties.items()
PropLine(p, required) ==
    <<"            ">> \o p.name \o <<" (">> \o JsonTypeToPython(p.schema) \o <<")">>
        \o (IF \E i \in 1..Len(required) : required[i] = p.name THEN <<>> ELSE <<" (optional)">>)
        \o <<": ">> \o p.schema.description

\* _json_schema_to_python_docstring
JsonSchemaToPythonDocstring(schema, section_name) ==
    IF schema.keys = {} \/ schema.type_list \/ schema.type # <<"object">>
    THEN <<section_name, ":\n            Any">>
    ELSE IF schema.properties = <<>>
    THEN <<section_name, ":\n            dict: Any dictionary">>
    ELSE Join(<< <<section_name, ":">> >>
              \o [i \in 1..Len(schema.properties) |->
                      PropLine(schema.properties[i], schema.required)],
              <<"\n">>)

\* the text tool_to_python_interface generates on a cache miss
InterfaceString(tool) ==
    LET input_interface == JsonSchemaToPythonDocstring(tool.inputs, "Args")
        output_interface == JsonSchemaToPythonDocstring(tool.outputs, "Returns")
        tags == Join(tool.tags, <<", ">>)
    IN  IF HasDot(tool.name)
        THEN <<"\nclass ">> \o ManualName(tool.name) \o <<":\n    async def ">>
                 \o LeafName(tool.name) \o <<"(self, **kwargs) -> dict:\n        \"\"\"\n        ">>
                 \o tool.description \o <<"\n        \n        ">> \o input_interface
                 \o <<"\n        \n        ">> \o output_interface
                 \o <<"\n        \n        Tags: ">> \o tags
                 \o <<"\n        \"\"\"\n        pass\n", "\n# Access as: ">>
                 \o ManualName(tool.name) \o <<".">> \o LeafName(tool.name) \o <<"(**kwargs)">>
        ELSE <<"\nasync def ">> \o SanitizeIdentifier(tool.name)
                 \o <<"(**kwargs) -> dict:\n    \"\"\"\n    ">>
                 \o tool.description \o <<"\n    \n    ">> \o input_interface
                 \o <<"\n    \n    ">> \o output_interface
                 \o <<"\n    \n    Tags: ">> \o tags
                 \o <<"\n    \"\"\"\n    pass\n", "\n# Access as: ">>
                 \o SanitizeIdentifier(tool.name) \o <<"(**kwargs)">>

ToolToPythonInterfaceUncached(cache, tool) ==
    [text |-> InterfaceString(tool), cache |-> cache]

ToolToPythonInterfaceOverwrite(cache, tool) ==
    [text |-> InterfaceString(tool), cache |-> Put(cache, tool.name, InterfaceString(tool))]

\* tool_to_python_interface: the text returned and the cache afterwards
ToolToPythonInterface(cache, tool) ==
    IF tool.name \in DOMAIN cache
    THEN [text |-> cache[tool.name], cache |-> cache]
    ELSE [text |-> InterfaceString(tool), cache |-> Put(cache, tool.name, InterfaceString(tool))]

\* get_all_tools_python_interfaces over the list ts: text and cache afterwards
RECURSIVE InterfacesOf(_, _)
InterfacesOf(cache, ts) ==
    IF ts = <<>> THEN [texts |-> <<>>, cache |-> cache]
    ELSE LET one == ToolToPythonInterface(cache, Head(ts))
             rest == InterfacesOf(one.cache, Tail(ts))
         IN  [texts |-> <<one.text>> \o rest.texts, cache |-> rest.cache]

Header == <<"# Auto-generated Python interfaces for UTCP tools\n">>

GetAllToolsPythonInterfacesByName(cache, ts) ==
    LET first == SelectSeq(ts, LAMBDA t : \A i \in 1..Len(ts) : ts[i].name = t.name => ts[i] = t)
        r == InterfacesOf(cache, first)
    IN  [text |-> Header \o Join(r.texts, <<"\n\n">>), cache |-> r.cache]

\* get_all_tools_python_interfaces: header + '\n\n'.join(interfaces)
GetAllToolsPythonInterfaces(cache, ts) ==
    LET r == InterfacesOf(cache, ts)
    IN  [text |-> Header \o Join(r.texts, <<"\n\n">>), cache |-> r.cache]

\* ------------------------------------------------------------------ faults
Fault(type, msg) == [type |-> type, msg |-> msg]

\* what `except Exception` catches; CancelledError and the like are not
IsException(fault) == fault.type \notin {"BaseException", "CancelledError"}

Boom == <<"boom">>
BackendFaults == {Fault("Exception", Boom), Fault("BaseException", Boom)}

ToolNotFound(tool_name) == Fault("ValueError", <<"Tool '">> \o tool_name \o <<"' not found">>)

\* tool_func: except Exception as error -> RuntimeError(...)
WrapFault(t_name, error) ==
    IF IsException(error)
    THEN Fault("RuntimeError", <<"Error calling tool '">> \o t_name \o <<"': ">> \o error.msg)
    ELSE error

\* ------------------------------------------------------------------ execution context
Entry(kind, attrs, target) == [kind |-> kind, attrs |-> attrs, target |-> target]

\* the objects bound by the context literal: the per-call captured_print and
\* lambda, builtin functions and types, the json and asyncio modules, a str
BaseKinds ==
    [k \in {"print", "__get_tool_interface"} |-> "pyfunc"]
    @@ [k \in {"len", "range", "enumerate", "zip", "map", "filter", "sum", "min", "max",
               "abs", "round", "sorted", "reversed", "list", "dict", "set", "tuple",
               "str", "int", "float", "bool"} |-> "builtin"]
    @@ [k \in {"json", "asyncio"} |-> "module"]
    @@ [k \in {"__interfaces"} |-> "str"]

Modules == {<<"json">>, <<"asyncio">>}

BaseContext == [k \in {<<b>> : b \in DOMAIN BaseKinds} |-> Entry(BaseKinds[k[1]], EmptyMap, <<>>)]

\* setattr(obj, name, value) succeeds on instances, functions and modules
AcceptsAttrs(kind) == kind \in {"ns", "pyfunc", "tool", "module"}

\* one iteration of `for tool in tools` in _create_execution_context;
\* b = [ok, context, modules]
BindTool(b, tool) ==
    IF ~b.ok THEN b
    ELSE IF HasDot(tool.name)
    THEN LET manual_name == ManualName(tool.name)
             tool_name == LeafName(tool.name)
             ctx == IF manual_name \in DOMAIN b.context THEN b.context
                    ELSE Put(b.context, manual_name, Entry("ns", EmptyMap, <<>>))
             obj == ctx[manual_name]
         IN  IF ~AcceptsAttrs(obj.kind)
             THEN [b EXCEPT !.ok = FALSE, !.context = ctx]
             ELSE IF obj.kind = "module"
             THEN [b EXCEPT !.context = ctx,
                            !.modules = [@ EXCEPT ![manual_name] = Put(@, tool_name, tool.name)]]
             ELSE [b EXCEPT !.context =
                       [ctx EXCEPT ![manual_name].attrs = Put(@, tool_name, tool.name)]]
    ELSE [b EXCEPT !.context =
              Put(b.context, SanitizeIdentifier(tool.name), Entry("tool", EmptyMap, tool.name))]

RECURSIVE BindAll(_, _)
BindAll(b, ts) == IF ts = <<>> THEN b ELSE BindAll(BindTool(b, Head(ts)), Tail(ts))

\* _create_execution_context: [ok, context, modules, interfaces, cache]
CreateExecutionContext(ts, cache, modules) ==
    LET all == GetAllToolsPythonInterfaces(cache, ts)
        b == BindAll([ok |-> TRUE, context |-> BaseContext, modules |-> modules], ts)
    IN  [ok |-> b.ok, context |-> b.context, modules |-> b.modules,
         interfaces |-> all.text, cache |-> all.cache]

\* the attributes of a context object: a module is one object for all calls
AttrsOf(context, modules, k) ==
    IF context[k].kind = "module" THEN modules[k] ELSE context[k].attrs

\* the callables a snippet can name: <<tool>> and <<manual, tool>>
CallablePaths(context, modules) ==
    {<<k>> : k \in {x \in DOMAIN context : context[x].kind = "tool"}}
    \cup UNION {{<<k, a>> : a \in DOMAIN AttrsOf(context, modules, k)} : k \in DOMAIN context}

\* t_name of the tool_func closure bound at path
Target(context, modules, path) ==
    IF Len(path) = 1 THEN context[path[1]].target
    ELSE AttrsOf(context, modules, path[1])[path[2]]

\* ------------------------------------------------------------------ snippets
\* The code text of a call, by what decides the engine's path before the
\* snippet runs: whether the wrapped text compiles.  What a compiled snippet
\* does is chosen statement by statement as it runs; steps is the number of
\* its statements that write or call something.
Snippet(compiles, steps) == [compiles |-> compiles, steps |-> steps]

Snippets == {Snippet(c, MaxSteps) : c \in BOOLEAN}

Timeouts == {1, 30}

\* what a snippet prints, and writes to sys.stdout / sys.stderr
PrintArgs == {<< <<"First log">> >>, << <<"Number:">>, <<"42">> >>}
StreamWrites == {<<"o", "\n">>}

SyntaxErrorMsg == <<"invalid syntax">>
SnippetFaults == {Fault("Exception", <<"zz">>), Fault("BaseException", <<"zz">>)}

\* print(*args, file=output): str() of each argument, joined by ' ', then '\n'
PrintFormat(args) == Join(args, <<" ">>) \o <<"\n">>

ErrorPrefix == "[ERROR] "

\* logs.extend(content.rstrip().split('\n')), with a prefix on each line
ExtendLogs(logs, content, prefix) ==
    IF content = <<>> THEN logs
    ELSE LET lines == Split(RStrip(content), "\n")
         IN  logs \o [i \in 1..Len(lines) |-> prefix \o lines[i]]

TimedOutLine(timeout) ==
    <<ErrorPrefix, "Code execution timed out after ", ToString(timeout), "s">>

FailedLine(error) == <<ErrorPrefix, "Code execution failed: ">> \o error.msg

\* ------------------------------------------------------------------ state
Runs == {1}

\* the calls of call_tool_chain that can be in progress together
Calls == {1, 2}

\* the process's own sys.stdout / sys.stderr, which is no call's StringIO
Console == 0

VARIABLES
    tools,                  \* self._tools: the one list object
    tool_functions,         \* self._tool_functions
    tool_interface_cache,   \* self._tool_interface_cache
    sys_stdout,             \* sys.stdout: Console or the StringIO of a run
    sys_stderr,             \* sys.stderr
    modules,                \* attributes set on the json / asyncio modules
    run,                    \* the calls of call_tool_chain
    handle,                 \* the list get_tools last returned, and its entries then
    last_call,              \* the last direct call_tool: arguments and outcome
    added,                  \* the add_tool calls since the last close, in order
    last_describe,          \* the last interface text a caller asked for
    applied                 \* the last call of a helper function: argument and result

vars ==
    <<tools, tool_functions, tool_interface_cache, sys_stdout, sys_stderr, modules, run,
      handle, last_call, added, last_describe, applied>>

registry == <<tools, tool_functions, tool_interface_cache>>
streams == <<sys_stdout, sys_stderr>>

NoFault == Fault("", <<>>)
NoOutcome == [kind |-> "", value |-> <<>>, fault |-> NoFault]
\* no text asked for yet; shown: per name, the text the first
\* tool_to_python_interface call since the last close returned to its caller
NoText == [op |-> "", tool |-> Tool(<<>>, <<>>, EmptySchema, EmptySchema, <<>>), text |-> <<>>,
           shown |-> EmptyMap]
NoWait == [kind |-> "", name |-> <<>>, args |-> <<>>, fn |-> "", path |-> <<>>]

IdleRun ==
    [pc |-> "idle", code |-> Snippet(FALSE, 0), timeout |-> 0, timer |-> "off",
     logs |-> <<>>, stdout_capture |-> <<>>, stderr_capture |-> <<>>,
     old_stdout |-> Console, old_stderr |-> Console,
     context |-> EmptyMap, interfaces |-> <<>>, steps |-> 0, waiting |-> NoWait,
     received |-> <<>>, reached |-> NoFault, caught |-> NoFault,
     response |-> [result |-> None, logs |-> <<>>], raised |-> NoFault,
     ended |-> "", written |-> <<>>, asked |-> <<>>, calls |-> <<>>, out |-> NoOutcome,
     retval |-> <<>>, thrown |-> NoFault, tools |-> [ref |-> "copy", copy |-> <<>>],
     looked |-> [name |-> <<>>, text |-> <<>>], scheduled |-> FALSE]

\* no helper function called on its own
NotApplied == [fn |-> "", arg |-> <<>>, out |-> <<>>]

\* a new client
NewClient ==
    /\ tools = <<>>
    /\ tool_functions = EmptyMap
    /\ tool_interface_cache = EmptyMap
    /\ sys_stdout = Console
    /\ sys_stderr = Console
    /\ modules = [m \in Modules |-> EmptyMap]
    /\ run = [r \in Calls |-> IdleRun]
    /\ handle = [given |-> FALSE, ref |-> "copy", copy |-> <<>>, snap |-> <<>>]
    /\ last_call = [made |-> FALSE, name |-> <<>>, args |-> <<>>, bound |-> FALSE,
                    fn |-> "", invoked |-> <<>>, outcome |-> NoOutcome, backend |-> NoOutcome]
    /\ added = <<>>
    /\ last_describe = NoText

Init == NewClient /\ applied = NotApplied

\* Between two suspension points a call runs alone on the event loop; and
\* the caller of a call that has ended takes its outcome before anything
\* else is done with the client.
Busy == \E r \in Calls : run[r].pc \in {"running", "spinning", "returned", "raised"}

\* ------------------------------------------------------------------ registry
\* add_tool
AddTool(tool, tool_function) ==
    /\ ~Busy
    /\ tools' = Append(tools, tool)
    /\ tool_functions' = Put(tool_functions, tool.name, tool_function)
    /\ added' = Append(added, [tool |-> tool, fn |-> tool_function])
    /\ UNCHANGED <<tool_interface_cache, streams, modules, run, handle, last_call, last_describe, applied>>

\* What get_tools returns: a reference to the list object self._tools
\* (ref = "self._tools") or a list of its own (ref = "copy", with its entries).
GetToolsResult == [ref |-> "self._tools", copy |-> <<>>]

\* the entries of a list a caller holds
Contents(h) == IF h.ref = "self._tools" THEN tools ELSE h.copy

\* get_tools, called by a client that keeps the result; snap: its entries then
GetTools ==
    /\ ~Busy
    /\ handle' = [given |-> TRUE, ref |-> GetToolsResult.ref, copy |-> GetToolsResult.copy,
                  snap |-> Contents(GetToolsResult)]
    /\ UNCHANGED <<registry, streams, modules, run, last_call, added, last_describe, applied>>

\* close: the three containers are cleared in place
Close ==
    /\ ~Busy
    /\ tools' = <<>>
    /\ tool_functions' = EmptyMap
    /\ tool_interface_cache' = EmptyMap
    /\ added' = <<>>
    /\ last_describe' = [last_describe EXCEPT !.shown = EmptyMap]
    /\ UNCHANGED <<streams, modules, run, handle, last_call, applied>>

\* tool_to_python_interface(tool), called by a client with a Tool of its own
Describe(tool) ==
    /\ ~Busy
    /\ LET res == ToolToPythonInterface(tool_interface_cache, tool)
       IN  /\ tool_interface_cache' = res.cache
           /\ last_describe' =
                  [op |-> "describe", tool |-> tool, text |-> res.text,
                   shown |-> IF tool.name \in DOMAIN last_describe.shown
                             THEN last_describe.shown
                             ELSE Put(last_describe.shown, tool.name, res.text)]
    /\ UNCHANGED <<tools, tool_functions, streams, modules, run, handle, last_call, added, applied>>

\* get_all_tools_python_interfaces, called by a client
DescribeAll ==
    /\ ~Busy
    /\ LET res == GetAllToolsPythonInterfaces(tool_interface_cache, Contents(GetToolsResult))
       IN  /\ tool_interface_cache' = res.cache
           /\ last_describe' = [op |-> "describe_all", tool |-> NoText.tool,
                                text |-> res.text, shown |-> last_describe.shown]
    /\ UNCHANGED <<tools, tool_functions, streams, modules, run, handle, last_call, added, applied>>

\* ------------------------------------------------------------------ call_tool
Returned(v) == [kind |-> "return", value |-> v, fault |-> NoFault]
Raised(f) == [kind |-> "raise", value |-> <<>>, fault |-> f]

\* what an awaited tool function does with its arguments
BackendOutcomes == {Returned(v) : v \in Values} \cup {Raised(f) : f \in BackendFaults}

LookupToolMissing(functions, tool_name) == [found |-> FALSE, fn |-> ""]

\* call_tool up to the await: the callable found under tool_name, if any
LookupTool(functions, tool_name) ==
    IF tool_name \in DOMAIN functions
    THEN [found |-> TRUE, fn |-> functions[tool_name]]
    ELSE [found |-> FALSE, fn |-> ""]

CallToolResultNoArgs(functions, tool_name, args, backend) ==
    IF tool_name \in DOMAIN functions
    THEN [invoked |-> <<[fn |-> functions[tool_name], args |-> <<>>]>>, outcome |-> backend]
    ELSE [invoked |-> <<>>, outcome |-> Raised(ToolNotFound(tool_name))]

\* call_tool: the callables invoked and the outcome, backend being what the
\* callable does
CallToolResult(functions, tool_name, args, backend) ==
    LET look == LookupTool(functions, tool_name)
    IN  IF look.found
        THEN [invoked |-> <<[fn |-> look.fn, args |-> args]>>, outcome |-> backend]
        ELSE [invoked |-> <<>>, outcome |-> Raised(ToolNotFound(tool_name))]

\* a direct call of call_tool by a client
CallTool(tool_name, args, backend) ==
    /\ ~Busy
    /\ LET res == CallToolResult(tool_functions, tool_name, args, backend)
       IN  last_call' = [made |-> TRUE, name |-> tool_name, args |-> args,
                         bound |-> tool_name \in DOMAIN tool_functions,
                         fn |-> IF tool_name \in DOMAIN tool_functions
                                THEN tool_functions[tool_name] ELSE "",
                         invoked |-> res.invoked, outcome |-> res.outcome,
                         backend |-> backend]
    /\ UNCHANGED <<registry, streams, modules, run, handle, added, last_describe, applied>>

\* tool_func(**kwargs): call_tool with every Exception wrapped
ToolFuncOutcome(t_name, outcome) ==
    IF outcome.kind = "raise" THEN Raised(WrapFault(t_name, outcome.fault)) ELSE outcome

\* ------------------------------------------------------------------ call_tool_chain
\* call_tool_chain up to wait_for: get_tools, logs = [], the context.  A
\* failure of _create_execution_context leaves call_tool_chain as raised.
CallToolChain(r, code, timeout) ==
    /\ ~Busy
    /\ run[r].pc = "idle"
    /\ LET setup == CreateExecutionContext(Contents(GetToolsResult), tool_interface_cache, modules)
       IN  /\ tool_interface_cache' = setup.cache
           /\ modules' = setup.modules
           /\ run' = [run EXCEPT ![r] =
                  IF setup.ok
                  THEN [IdleRun EXCEPT !.pc = "ready", !.code = code, !.timeout = timeout,
                                       !.timer = "armed", !.context = setup.context,
                                       !.interfaces = setup.interfaces,
                                       !.tools = GetToolsResult]
                  ELSE [IdleRun EXCEPT !.pc = "raised", !.code = code, !.timeout = timeout,
                                       !.ended = "setup",
                                       !.raised = Fault("AttributeError", <<>>)]]
    /\ UNCHANGED <<tools, tool_functions, streams, handle, last_call, added, last_describe, applied>>

RunCodeResultLost(result) == None

\* the value _run_code returns: context['__result'] = result; context.get('__result')
RunCodeResult(result) == result

\* The task of _run_code ends by returning result: the redirections are
\* left, both captures are flushed to logs, and call_tool_chain returns.
\* late: the timeout had fired and this build's wait_for reports it all the same.
FinishValue(rr, result, late) ==
    LET logs == ExtendLogs(ExtendLogs(rr.logs, rr.stdout_capture, <<>>),
                           rr.stderr_capture, <<ErrorPrefix>>)
    IN  [rr EXCEPT !.pc = "returned", !.logs = logs, !.waiting = NoWait,
                   !.response = IF late
                                THEN [result |-> None,
                                      logs |-> Append(logs, TimedOutLine(rr.timeout))]
                                ELSE [result |-> RunCodeResult(result), logs |-> logs]]

\* The task of _run_code ends by raising error: `except Exception` flushes
\* the stderr capture and re-raises; call_tool_chain catches an Exception.
FinishFault(rr, error, late) ==
    LET logs == IF IsException(error)
                THEN ExtendLogs(rr.logs, rr.stderr_capture, <<ErrorPrefix>>)
                ELSE rr.logs
    IN  IF late
        THEN [rr EXCEPT !.pc = "returned", !.logs = logs, !.waiting = NoWait,
                        !.response = [result |-> None,
                                      logs |-> Append(logs, TimedOutLine(rr.timeout))]]
        ELSE IF IsException(error)
        THEN [rr EXCEPT !.pc = "returned", !.logs = logs, !.waiting = NoWait,
                        !.response = [result |-> None, logs |-> Append(logs, FailedLine(error))]]
        ELSE [rr EXCEPT !.pc = "raised", !.waiting = NoWait, !.raised = error]

\* leaving `with redirect_stdout(...), redirect_stderr(...)`
ExitRedirect(r) ==
    /\ sys_stdout' = run[r].old_stdout
    /\ sys_stderr' = run[r].old_stderr

\* wait_for after a timeout the task did not end on: builds differ in
\* whether the task's own outcome or TimeoutError is reported
LateChoices(rr) == IF rr.timer = "fired" THEN BOOLEAN ELSE {FALSE}

\* The task starts: _run_code enters the redirections and exec()s the wrapped
\* text; a text that does not compile raises out of exec.
TaskStart(r) ==
    /\ ~Busy
    /\ run[r].pc = "ready"
    /\ IF run[r].code.compiles
       THEN /\ sys_stdout' = r
            /\ sys_stderr' = r
            /\ run' = [run EXCEPT ![r].pc = "running", ![r].old_stdout = sys_stdout,
                                  ![r].old_stderr = sys_stderr]
       ELSE /\ UNCHANGED streams
            /\ run' = [run EXCEPT ![r] =
                           FinishFault([run[r] EXCEPT !.ended = "compile"],
                                       Fault("SyntaxError", SyntaxErrorMsg), FALSE)]
    /\ UNCHANGED <<registry, modules, handle, last_call, added, last_describe, applied>>

Running(r) == run[r].pc = "running"
HasBudget(r) == run[r].steps < run[r].code.steps

\* captured_print(*args)
CapturedPrint(logs, args) ==
    LET log_line == RStrip(PrintFormat(args))
    IN  IF log_line # <<>> THEN Append(logs, log_line) ELSE logs

\* the snippet calls print(*args)
ConsolePrint(r, args) ==
    /\ Running(r) /\ HasBudget(r)
    /\ run' = [run EXCEPT ![r].logs = CapturedPrint(@, args),
                          ![r].steps = @ + 1,
                          ![r].written = Append(@, [chan |-> "console", text |-> PrintFormat(args)])]
    /\ UNCHANGED <<registry, streams, modules, handle, last_call, added, last_describe, applied>>

\* the snippet writes w to sys.stdout: to whatever is installed there
StdoutWrite(r, w) ==
    /\ Running(r) /\ HasBudget(r)
    /\ LET noted == [run EXCEPT ![r].steps = @ + 1,
                                ![r].written = Append(@, [chan |-> "stdout", text |-> w])]
       IN  run' = IF sys_stdout \in Calls
                  THEN [noted EXCEPT ![sys_stdout].stdout_capture = @ \o w]
                  ELSE noted
    /\ UNCHANGED <<registry, streams, modules, handle, last_call, added, last_describe, applied>>

\* the snippet writes w to sys.stderr
StderrWrite(r, w) ==
    /\ Running(r) /\ HasBudget(r)
    /\ LET noted == [run EXCEPT ![r].steps = @ + 1,
                                ![r].written = Append(@, [chan |-> "stderr", text |-> w])]
       IN  run' = IF sys_stderr \in Calls
                  THEN [noted EXCEPT ![sys_stderr].stderr_capture = @ \o w]
                  ELSE noted
    /\ UNCHANGED <<registry, streams, modules, handle, last_call, added, last_describe, applied>>

GetToolInterfaceFresh(cache, ts, tool_name) ==
    LET named == SelectSeq(ts, LAMBDA t : t.name = tool_name)
        text == ToolToPythonInterface(EmptyMap, named[1]).text
    IN  IF named = <<>> THEN [text |-> None, cache |-> cache]
        ELSE [text |-> text, cache |-> Put(EmptyMap, tool_name, text)]

\* __get_tool_interface(tool_name) over the list ts the context was built
\* with: next((tool_to_python_interface(t) for t in ts if t.name == tool_name), None)
GetToolInterface(cache, ts, tool_name) ==
    LET named == SelectSeq(ts, LAMBDA t : t.name = tool_name)
    IN  IF named = <<>> THEN [text |-> None, cache |-> cache]
        ELSE ToolToPythonInterface(cache, named[1])

\* the snippet calls __get_tool_interface(tool_name)
Introspect(r, tool_name) ==
    /\ Running(r) /\ HasBudget(r)
    /\ LET res == GetToolInterface(tool_interface_cache, Contents(run[r].tools), tool_name)
       IN  /\ tool_interface_cache' = res.cache
           /\ run' = [run EXCEPT ![r].steps = @ + 1,
                                 ![r].looked = [name |-> tool_name, text |-> res.text]]
    /\ UNCHANGED <<tools, tool_functions, streams, modules, handle, last_call, added,
                   last_describe, applied>>

\* The outcome of an awaited tool_func reaches the snippet: a value is
\* received; a fault is caught by the snippet's handler or ends the task.
Deliver(r, rr, outcome, catch, late) ==
    IF outcome.kind = "return"
    THEN /\ run' = [run EXCEPT ![r] = [rr EXCEPT !.pc = "running", !.waiting = NoWait,
                                                 !.received = outcome.value,
                                                 !.reached = NoFault]]
         /\ UNCHANGED streams
    ELSE IF catch
    THEN /\ run' = [run EXCEPT ![r] = [rr EXCEPT !.pc = "running", !.waiting = NoWait,
                                                 !.reached = outcome.fault,
                                                 !.caught = outcome.fault]]
         /\ UNCHANGED streams
    ELSE /\ run' = [run EXCEPT ![r] =
                        FinishFault([rr EXCEPT !.ended = "raise", !.reached = outcome.fault,
                                                !.thrown = outcome.fault],
                                    outcome.fault, late)]
         /\ ExitRedirect(r)

\* the snippet awaits the callable at path; the tool function ends without
\* suspending (or there is none)
Invoke(r, path, args, backend, catch, late) ==
    /\ Running(r) /\ HasBudget(r)
    /\ path \in CallablePaths(run[r].context, modules)
    /\ late \in LateChoices(run[r])
    /\ LET t_name == Target(run[r].context, modules, path)
           res == CallToolResult(tool_functions, t_name, args, backend)
           rr == [run[r] EXCEPT !.steps = @ + 1,
                                !.asked = Append(@, [path |-> path, args |-> args]),
                                !.calls = @ \o res.invoked,
                                !.out = IF res.invoked = <<>> THEN NoOutcome ELSE backend]
       IN  Deliver(r, rr, ToolFuncOutcome(t_name, res.outcome), catch, late)
    /\ UNCHANGED <<registry, modules, handle, last_call, added, last_describe, applied>>

\* the snippet awaits the callable at path and the tool function suspends
InvokeSuspend(r, path, args) ==
    /\ Running(r) /\ HasBudget(r)
    /\ path \in CallablePaths(run[r].context, modules)
    /\ LET t_name == Target(run[r].context, modules, path)
           look == LookupTool(tool_functions, t_name)
           res == CallToolResult(tool_functions, t_name, args, NoOutcome)
       IN  /\ look.found
           /\ run' = [run EXCEPT ![r].steps = @ + 1, ![r].pc = "suspended",
                                 ![r].asked = Append(@, [path |-> path, args |-> args]),
                                 ![r].calls = @ \o res.invoked,
                                 ![r].out = NoOutcome,
                                 ![r].waiting = [kind |-> "tool", name |-> t_name,
                                                 args |-> args, fn |-> look.fn, path |-> path]]
    /\ UNCHANGED <<registry, streams, modules, handle, last_call, added, last_describe, applied>>

\* the suspended tool function ends
ResumeTool(r, backend, catch, late) ==
    /\ ~Busy
    /\ run[r].pc = "suspended" /\ run[r].waiting.kind = "tool"
    /\ backend \in BackendOutcomes
    /\ late \in LateChoices(run[r])
    /\ LET w == run[r].waiting
           rr == [run[r] EXCEPT !.out = backend]
       IN  Deliver(r, rr, ToolFuncOutcome(w.name, backend), catch, late)
    /\ UNCHANGED <<registry, modules, handle, last_call, added, last_describe, applied>>

\* the snippet awaits asyncio.sleep(...)
Sleep(r) ==
    /\ Running(r)
    /\ run' = [run EXCEPT ![r].pc = "suspended",
                          ![r].waiting = [kind |-> "sleep", name |-> <<>>, args |-> <<>>,
                                          fn |-> "", path |-> <<>>]]
    /\ UNCHANGED <<registry, streams, modules, handle, last_call, added, last_describe, applied>>

ResumeSleep(r) ==
    /\ ~Busy
    /\ run[r].pc = "suspended" /\ run[r].waiting.kind = "sleep"
    /\ run' = [run EXCEPT ![r].pc = "running", ![r].waiting = NoWait]
    /\ UNCHANGED <<registry, streams, modules, handle, last_call, added, last_describe, applied>>

\* the snippet enters a loop that never awaits: the event loop never runs again
Spin(r) ==
    /\ Running(r)
    /\ run' = [run EXCEPT ![r].pc = "spinning"]
    /\ UNCHANGED <<registry, streams, modules, handle, last_call, added, last_describe, applied>>

\* the snippet returns result, or reaches its end (result = None)
Return(r, result, late) ==
    /\ Running(r)
    /\ late \in LateChoices(run[r])
    /\ run' = [run EXCEPT ![r] = FinishValue([run[r] EXCEPT !.ended = "return",
                                                           !.retval = result], result, late)]
    /\ ExitRedirect(r)
    /\ UNCHANGED <<registry, modules, handle, last_call, added, last_describe, applied>>

\* the snippet raises error and does not catch it
Raise(r, error, late) ==
    /\ Running(r)
    /\ late \in LateChoices(run[r])
    /\ run' = [run EXCEPT ![r] = FinishFault([run[r] EXCEPT !.ended = "raise",
                                                           !.thrown = error], error, late)]
    /\ ExitRedirect(r)
    /\ UNCHANGED <<registry, modules, handle, last_call, added, last_describe, applied>>

\* wait_for's timeout elapses while the task is suspended: the task is
\* cancelled there.  CancelledError passes every `except Exception`; a
\* snippet that intercepts it (swallows: a bare except, except BaseException)
\* goes on running.
Timeout(r, swallows) ==
    /\ ~Busy
    /\ run[r].pc = "suspended" /\ run[r].timer = "armed"
    /\ IF swallows
       THEN /\ run' = [run EXCEPT ![r].pc = "running", ![r].timer = "fired",
                                  ![r].waiting = NoWait]
            /\ UNCHANGED streams
       ELSE /\ run' = [run EXCEPT ![r] =
                           FinishFault([run[r] EXCEPT !.ended = "cancelled", !.timer = "fired"],
                                       Fault("CancelledError", <<>>), TRUE)]
            /\ ExitRedirect(r)
    /\ UNCHANGED <<registry, modules, handle, last_call, added, last_describe, applied>>

\* the snippet starts a task of its own with asyncio.create_task and goes on
CreateTask(r) ==
    /\ Running(r) /\ HasBudget(r)
    /\ ~run[r].scheduled
    /\ run' = [run EXCEPT ![r].steps = @ + 1, ![r].scheduled = TRUE]
    /\ UNCHANGED <<registry, streams, modules, handle, last_call, added, last_describe, applied>>

\* The task the snippet started prints, while the call is suspended or after
\* it has returned: print is the captured_print of the call's context, which
\* appends to the list logs.  The dict of a normal return holds that list
\* itself; the timed-out and failed returns hold a new list (logs + [...]).
BackgroundPrint(r, args) ==
    /\ run[r].scheduled
    /\ run[r].pc \in {"suspended", "returned"}
    /\ \A q \in Calls : run[q].pc \notin {"running", "spinning"}
    /\ LET logs == CapturedPrint(run[r].logs, args)
           same_list == /\ run[r].pc = "returned" /\ run[r].ended = "return"
                        /\ run[r].response.logs = run[r].logs
       IN  run' = [run EXCEPT ![r].scheduled = FALSE,
                              ![r].logs = logs,
                              ![r].response.logs = IF same_list THEN logs ELSE @]
    /\ UNCHANGED <<registry, streams, modules, handle, last_call, added, last_describe, applied>>

\* the caller has the outcome of call r (the pair returned, or the exception)
Take(r) ==
    /\ run[r].pc \in {"returned", "raised"}
    /\ run' = [run EXCEPT ![r] = IdleRun]
    /\ UNCHANGED <<registry, streams, modules, handle, last_call, added, last_describe, applied>>

\* ------------------------------------------------------------------ specification
RegistryNext ==
    \/ \E t \in ToolDefs, f \in Fns : Len(tools) < MaxTools /\ AddTool(t, f)
    \/ Close

ClientNext ==
    \/ GetTools
    \/ \E n \in ToolNames, a \in Args, b \in BackendOutcomes : CallTool(n, a, b)

EngineNext ==
    \/ \E r \in Runs, c \in Snippets, t \in Timeouts : CallToolChain(r, c, t)
    \/ \E r \in Runs : TaskStart(r)
    \/ \E r \in Runs, a \in PrintArgs : ConsolePrint(r, a)
    \/ \E r \in Runs, w \in StreamWrites : StdoutWrite(r, w)
    \/ \E r \in Runs, w \in StreamWrites : StderrWrite(r, w)
    \/ \E r \in Runs : \E p \in CallablePaths(run[r].context, modules), a \in Args,
          b \in BackendOutcomes, c \in BOOLEAN, l \in BOOLEAN : Invoke(r, p, a, b, c, l)
    \/ \E r \in Runs : \E p \in CallablePaths(run[r].context, modules), a \in Args :
          InvokeSuspend(r, p, a)
    \/ \E r \in Runs, b \in BackendOutcomes, c \in BOOLEAN, l \in BOOLEAN : ResumeTool(r, b, c, l)
    \/ \E r \in Runs : Sleep(r)
    \/ \E r \in Runs : ResumeSleep(r)
    \/ \E r \in Runs : Spin(r)
    \/ \E r \in Runs, v \in Values \cup {None}, l \in BOOLEAN : Return(r, v, l)
    \/ \E r \in Runs, e \in SnippetFaults, l \in BOOLEAN : Raise(r, e, l)
    \/ \E r \in Runs, w \in BOOLEAN : Timeout(r, w)
    \/ \E r \in Runs : Take(r)

\* the engine: calls of call_tool_chain on a client whose registry changes
Next == RegistryNext \/ EngineNext

Spec == Init /\ [][Next]_vars

\* the registry alone: add_tool, close, get_tools and direct call_tool
NextRegistry ==
    \/ \E t \in ToolDefs, f \in Fns : Len(tools) < MaxList /\ AddTool(t, f)
    \/ Close
    \/ ClientNext

SpecRegistry == Init /\ [][NextRegistry]_vars

\* the tools of the two specifications below
NsF1 == Tool(NsF, <<"d1">>, SchemaA, SchemaR, <<<<"math">>>>)
NsF2 == Tool(NsF, <<"d2">>, EmptySchema, SchemaA, <<>>)
JsonX1 == Tool(JsonX, <<"d4">>, EmptySchema, SchemaR, <<>>)

\* interface texts: tool_to_python_interface and
\* get_all_tools_python_interfaces called by a client, between registrations,
\* closes and calls of call_tool_chain (whose snippet does not compile)
NextDescribe ==
    \/ \E t \in {NsF1, NsF2, JsonX1} : Len(tools) < MaxList /\ AddTool(t, "f1")
    \/ Close
    \/ \E t \in {NsF1, NsF2, JsonX1} : Describe(t)
    \/ DescribeAll
    \/ \E r \in Runs : CallToolChain(r, Snippet(FALSE, 0), 30)
    \/ \E r \in Runs : TaskStart(r)
    \/ \E r \in Runs : Take(r)

SpecDescribe == Init /\ [][NextDescribe]_vars

\* setup and introspection: calls whose snippets look interfaces up and
\* sleep, while the registry changes
NextSetup ==
    \/ \E t \in {NsF1, JsonX1} : Len(tools) < MaxList /\ AddTool(t, "f1")
    \/ Close
    \/ \E r \in Runs, c \in Snippets : CallToolChain(r, c, 30)
    \/ \E r \in Runs : TaskStart(r)
    \/ \E r \in Runs, n \in {NsF, JsonX} : Introspect(r, n)
    \/ \E r \in Runs : Sleep(r)
    \/ \E r \in Runs : ResumeSleep(r)
    \/ \E r \in Runs, l \in BOOLEAN : Return(r, None, l)
    \/ \E r \in Runs, e \in SnippetFaults, l \in BOOLEAN : Raise(r, e, l)
    \/ \E r \in Runs, w \in BOOLEAN : Timeout(r, w)
    \/ \E r \in Runs : Take(r)

SpecSetup == Init /\ [][NextSetup]_vars

\* names whose bindings meet in the context: a name that is a key of the
\* context literal, and two names that differ only in a character
\* _sanitize_identifier replaces
InterfacesName == <<"__interfaces">>
ADashBC == <<"a", "-", "b", ".", "c">>
AUnderBC == <<"a", "_", "b", ".", "c">>

ContextNames == {NsF, InterfacesName, ADashBC, AUnderBC}
ContextToolDefs == {Tool(n, <<"d1">>, EmptySchema, EmptySchema, <<>>) : n \in ContextNames}

\* the context: calls set up over tools whose bindings meet, whose snippets
\* look interfaces up and invoke what the context binds
NextContext ==
    \/ \E t \in ContextToolDefs : Len(tools) < MaxList /\ AddTool(t, "f1")
    \/ Close
    \/ \E r \in Runs, c \in Snippets : CallToolChain(r, c, 30)
    \/ \E r \in Runs : TaskStart(r)
    \/ \E r \in Runs, n \in ContextNames : Introspect(r, n)
    \/ \E r \in Runs : \E p \in CallablePaths(run[r].context, modules) :
          Invoke(r, p, <<"a1">>, Returned(<<"v1">>), FALSE, FALSE)
    \/ \E r \in Runs : Return(r, None, FALSE)
    \/ \E r \in Runs : Take(r)

SpecContext == Init /\ [][NextContext]_vars

\* scheduled work: calls whose snippets start a task that prints later
NextLate ==
    \/ \E r \in Runs : CallToolChain(r, Snippet(TRUE, MaxWrites), 30)
    \/ \E r \in Runs : TaskStart(r)
    \/ \E r \in Runs : CreateTask(r)
    \/ \E r \in Runs, a \in PrintArgs : ConsolePrint(r, a)
    \/ \E r \in Runs, a \in PrintArgs : BackgroundPrint(r, a)
    \/ \E r \in Runs : Sleep(r)
    \/ \E r \in Runs : ResumeSleep(r)
    \/ \E r \in Runs, l \in BOOLEAN : Return(r, None, l)
    \/ \E r \in Runs, e \in SnippetFaults, l \in BOOLEAN : Raise(r, e, l)
    \/ \E r \in Runs, w \in BOOLEAN : Timeout(r, w)
    \/ \E r \in Runs : Take(r)

SpecLate == Init /\ [][NextLate]_vars

\* the characters of the texts given to _sanitize_identifier
Chars == {"a", "_", "1", ".", "-", " "}

Texts == UNION {[1..k -> Chars] : k \in 0..MaxLen}

\* _sanitize_identifier(name), called on its own
SanitizeCall ==
    /\ applied.fn = ""
    /\ applied' = [fn |-> "_sanitize_identifier", arg |-> applied.arg,
                   out |-> SanitizeIdentifier(applied.arg)]
    /\ UNCHANGED <<registry, streams, modules, run, handle, last_call, added, last_describe>>

\* _sanitize_identifier called on what it returned
SanitizeAgain ==
    /\ applied.fn = "_sanitize_identifier"
    /\ applied' = [fn |-> "again", arg |-> applied.out, out |-> SanitizeIdentifier(applied.out)]
    /\ UNCHANGED <<registry, streams, modules, run, handle, last_call, added, last_describe>>

NextSanitize == SanitizeCall \/ SanitizeAgain

InitSanitize == NewClient /\ applied \in {[fn |-> "", arg |-> t, out |-> <<>>] : t \in Texts}

SpecSanitize == InitSanitize /\ [][NextSanitize]_vars

\* property schemas: 'type' absent, a name or a list of names; 'enum'
\* absent, empty or with values
TypeNames == {"string", "number", "integer", "boolean", "array", "object", "null", "foo"}
ListedTypes == {"string", "null", "foo"}
TypeLists == UNION {[1..k -> ListedTypes] : k \in 0..MaxTypes}
Enums == {<<>>, <<"x">>, <<"x", "y">>}

TypeValues ==
    {[type |-> <<n>>, type_list |-> FALSE] : n \in TypeNames}
    \cup {[type |-> l, type_list |-> TRUE] : l \in TypeLists}

TypeSchemas ==
    {Schema({"type", "enum"}, t.type, t.type_list, <<>>, <<>>, e, <<>>) :
        t \in TypeValues, e \in Enums}
    \cup {Schema({"type"}, t.type, t.type_list, <<>>, <<>>, <<>>, <<>>) : t \in TypeValues}
    \cup {Schema({"enum"}, <<>>, FALSE, <<>>, <<>>, e, <<>>) : e \in Enums}
    \cup {EmptySchema}

\* _json_type_to_python(schema), called on its own
JsonTypeCall ==
    /\ applied.fn = ""
    /\ applied' = [fn |-> "_json_type_to_python", arg |-> applied.arg,
                   out |-> JsonTypeToPython(applied.arg)]
    /\ UNCHANGED <<registry, streams, modules, run, handle, last_call, added, last_describe>>

NextTypes == JsonTypeCall

InitTypes ==
    NewClient /\ applied \in {[fn |-> "", arg |-> t, out |-> <<>>] : t \in TypeSchemas}

SpecTypes == InitTypes /\ [][NextTypes]_vars

\* schemas given to _json_schema_to_python_docstring: object schemas with
\* up to MaxProps properties of distinct names in any order and a required
\* list, and schemas that are not of type 'object'
PropNames == {<<"a">>, <<"b">>, <<"c">>}
PropKinds == {PropSchema("string", <<"first">>), Schema({"enum"}, <<>>, FALSE, <<>>, <<>>, <<"q">>, <<>>)}
RequiredLists == {<<>>, <<<<"a">>>>, <<<<"b">>>>, <<<<"a">>, <<"b">>>>, <<<<"c">>, <<"a">>, <<"zz">>>>}

PropLists ==
    UNION {{[i \in 1..k |-> Prop(ns[i], ks[i])] :
                ns \in {f \in [1..k -> PropNames] : \A i, j \in 1..k : f[i] = f[j] => i = j},
                ks \in [1..k -> PropKinds]} : k \in 0..MaxProps}

DocSchemas ==
    {ObjectSchema(ps, req) : ps \in PropLists, req \in RequiredLists}
    \cup {EmptySchema,
          Schema({"type"}, <<"object">>, FALSE, <<>>, <<>>, <<>>, <<>>),
          Schema({"type"}, <<"string">>, FALSE, <<>>, <<>>, <<>>, <<>>),
          Schema({"type", "properties"}, <<"object">>, TRUE,
                 <<Prop(<<"a">>, PropSchema("string", <<"first">>))>>, <<>>, <<>>, <<>>),
          Schema({"properties"}, <<>>, FALSE,
                 <<Prop(<<"a">>, PropSchema("string", <<"first">>))>>, <<>>, <<>>, <<>>)}

\* _json_schema_to_python_docstring(schema, section_name), called on its own
DocstringCall ==
    /\ applied.fn = ""
    /\ applied' = [fn |-> "_json_schema_to_python_docstring", arg |-> applied.arg,
                   out |-> JsonSchemaToPythonDocstring(applied.arg.schema,
                                                       applied.arg.section_name)]
    /\ UNCHANGED <<registry, streams, modules, run, handle, last_call, added, last_describe>>

NextDocstring == DocstringCall

InitDocstring ==
    NewClient /\ applied \in {[fn |-> "", arg |-> [schema |-> d, section_name |-> n],
                               out |-> <<>>] : d \in DocSchemas, n \in {"Args", "Returns"}}

SpecDocstring == InitDocstring /\ [][NextDocstring]_vars

\* blank and multi-line texts a snippet prints and writes
MorePrintArgs == {<< <<"a", "\n", "b">> >>}
MoreStreamWrites == {<<" ", "\n">>, <<"a", " ", "\n", "b", "\n">>}

\* logs: concurrent calls whose snippets print, write to sys.stdout and
\* sys.stderr, sleep and return; the snippet of the second call only writes
\* to sys.stdout
NextLogs ==
    \/ \E r \in Calls : CallToolChain(r, Snippet(TRUE, MaxWrites), 30)
    \/ \E r \in Calls : TaskStart(r)
    \/ \E r \in Runs, a \in PrintArgs \cup MorePrintArgs : ConsolePrint(r, a)
    \/ \E r \in Calls, w \in StreamWrites : StdoutWrite(r, w)
    \/ \E r \in Runs, w \in MoreStreamWrites : StdoutWrite(r, w)
    \/ \E r \in Runs, w \in StreamWrites : StderrWrite(r, w)
    \/ \E r \in Calls : Sleep(r)
    \/ \E r \in Calls : ResumeSleep(r)
    \/ \E r \in Calls : Return(r, None, FALSE)
    \/ \E r \in Calls : Take(r)

SpecLogs == Init /\ [][NextLogs]_vars

\* ------------------------------------------------------------------ properties
\* The fields ended, written, asked, calls, out, received, reached, caught,
\* retval and thrown of a call record what happened, for the properties below:
\* how the task ended; the writes of the snippet in arrival order; the
\* invocations the snippet made and the ones the callables saw; what the
\* last callable did; what the snippet got, returned and raised.

CallEnded(r) == run[r].pc \in {"returned", "raised"}

SyntheticHeads == {"Code execution timed out after ", "Code execution failed: "}

\* a line call_tool_chain adds: "[ERROR] Code execution ..."
IsSynthetic(line) == Len(line) >= 2 /\ line[1] = "[ERROR] " /\ line[2] \in SyntheticHeads

TimedOutText(n) == <<"[ERROR] ", "Code execution timed out after ", ToString(n), "s">>

\* the log entries of one write: one per line, trailing whitespace trimmed,
\* blank lines dropped, "[ERROR] " in front of an error-channel line
EntriesOf(w) ==
    LET pieces == Split(w.text, "\n")
        trimmed == [i \in 1..Len(pieces) |-> RStrip(pieces[i])]
        kept == SelectSeq(trimmed, LAMBDA l : l # <<>>)
    IN  [i \in 1..Len(kept) |-> IF w.chan = "stderr" THEN <<"[ERROR] ">> \o kept[i] ELSE kept[i]]

\* the log entries of the writes ws, in arrival order
RECURSIVE Entries(_)
Entries(ws) == IF ws = <<>> THEN <<>> ELSE EntriesOf(Head(ws)) \o Entries(Tail(ws))

\* the context path under which a capability name is bound
BindingPath(n) ==
    IF HasDot(n) THEN <<ManualName(n), LeafName(n)>> ELSE <<SanitizeIdentifier(n)>>

\* the capability a snippet names by path
NameAt(path) == CHOOSE n \in ToolNames : BindingPath(n) = path

\* C1: call_tool_chain never raises to its caller: whatever the snippet, the
\* registered tools and the timeout, every call ends by returning a pair.
C1_NeverRaises == \A r \in Runs : run[r].pc # "raised"

InProgress(r) == run[r].pc \in {"ready", "running", "suspended", "spinning"}

TimedOutReturn(r) ==
    /\ run[r].pc = "returned"
    /\ run[r].response.result = None
    /\ \E i \in 1..Len(run[r].response.logs) :
           run[r].response.logs[i] = TimedOutText(run[r].timeout)

\* C2: a call whose snippet never terminates on its own eventually returns,
\* with an empty result and the timed-out line of its timeout in logs: while
\* the call has not ended something can still happen (the snippet goes on,
\* or the timeout fires), and a call cut off by the timeout has returned
\* that pair.
C2_TimesOut ==
    \A r \in Runs :
        /\ InProgress(r) => ENABLED Next
        /\ run[r].ended = "cancelled" => TimedOutReturn(r)

\* C3: on timeout the returned logs are every line the snippet wrote before
\* the cancellation (print, sys.stdout, sys.stderr) in arrival order, with
\* the timed-out line as the last entry.
C3_TimeoutKeepsLogs ==
    \A r \in Runs :
        (run[r].pc = "returned" /\ run[r].ended = "cancelled")
            => run[r].response.logs = Append(Entries(run[r].written), TimedOutText(run[r].timeout))

\* C4: when the snippet raises a fault it does not catch (here: one of class
\* Exception), the call returns an empty result and logs made of every line
\* written before the fault, in arrival order, and then exactly one
\* synthetic "[ERROR] " line, the last.
C4_FaultKeepsLogs ==
    \A r \in Runs :
        (CallEnded(r) /\ run[r].ended = "raise" /\ IsException(run[r].thrown))
            => /\ run[r].pc = "returned"
               /\ run[r].response.result = None
               /\ Len(run[r].response.logs) = Len(Entries(run[r].written)) + 1
               /\ SubSeq(run[r].response.logs, 1, Len(Entries(run[r].written)))
                      = Entries(run[r].written)
               /\ IsSynthetic(run[r].response.logs[Len(run[r].response.logs)])

\* C5: a call whose snippet does not compile returns an empty result and
\* logs with a line that starts with "[ERROR]", and nothing of the snippet
\* has run: no callable was invoked and no line of the snippet is logged.
C5_CompileFault ==
    \A r \in Runs :
        (CallEnded(r) /\ ~run[r].code.compiles)
            => /\ run[r].pc = "returned"
               /\ run[r].response.result = None
               /\ \E i \in 1..Len(run[r].response.logs) : run[r].response.logs[i][1] = "[ERROR] "
               /\ run[r].calls = <<>>
               /\ run[r].written = <<>>

\* C6: when the snippet completes before the timeout has elapsed, the call
\* returns the value the snippet returned (None when it returned nothing),
\* and no line of logs is a synthetic fault line of the engine.
C6_Done ==
    \A r \in Runs :
        (run[r].ended = "return" /\ run[r].timer = "armed")
            => /\ run[r].pc = "returned"
               /\ run[r].response.result = run[r].retval
               /\ \A i \in 1..Len(run[r].response.logs) : ~IsSynthetic(run[r].response.logs[i])

C6_Witness ==
    \E r \in Runs :
        /\ run[r].pc = "returned" /\ run[r].ended = "return" /\ run[r].timer = "armed"
        /\ run[r].retval \in Values
        /\ run[r].response.logs # <<>>

\* the step in which the snippet of call r invokes a callable of its context
Invokes(r) == Len(run'[r].asked) = Len(run[r].asked) + 1

\* C7: round trip.  With ns.leaf registered with callable f, each invocation
\* ns.leaf(args) from a snippet invokes f exactly once, with exactly args,
\* and the snippet receives exactly the value f returns.
C7_RoundTrip ==
    /\ [][\A r \in Runs :
            LET a == run'[r].asked[Len(run'[r].asked)]
            IN  (Invokes(r) /\ NameAt(a.path) \in DOMAIN tool_functions)
                    => run'[r].calls
                           = Append(run[r].calls,
                                    [fn |-> tool_functions[NameAt(a.path)], args |-> a.args])]_vars
    /\ [](\A r \in Runs : run[r].out.kind = "return" => run[r].received = run[r].out.value)

C7_Witness ==
    \E r \in Runs :
        /\ run[r].pc = "returned" /\ run[r].ended = "return"
        /\ Len(run[r].asked) = 1 /\ Len(run[r].calls) = 1
        /\ run[r].out.kind = "return" /\ run[r].received = run[r].out.value
        /\ run[r].response.result = run[r].received

\* what the snippet of r is told went wrong in its last invocation
Underlying(r) ==
    IF run[r].out.kind = "raise" THEN run[r].out.fault.msg
    ELSE <<"Tool '">> \o NameAt(run[r].asked[Len(run[r].asked)].path) \o <<"' not found">>

InvocationError(r) ==
    [type |-> "RuntimeError",
     msg |-> <<"Error calling tool '">> \o NameAt(run[r].asked[Len(run[r].asked)].path)
                 \o <<"': ">> \o Underlying(r)]

CaughtAndReturned(r) ==
    /\ run[r].pc = "returned"
    /\ run[r].response.result = run[r].retval
    /\ \A i \in 1..Len(run[r].response.logs) : ~IsSynthetic(run[r].response.logs[i])

\* C8 as claimed: every fault of an invocation made from a snippet reaches
\* the snippet as one shape, with the capability's name and the underlying
\* message; a snippet that catches it and returns a value makes the call
\* return that value, with no synthetic fault line.
C8_OneFaultShape ==
    \A r \in Runs :
        /\ run[r].reached # NoFault => run[r].reached = InvocationError(r)
        /\ (run[r].ended = "return" /\ run[r].caught # NoFault) => CaughtAndReturned(r)

\* C9: call_tool(name, args) with no callable bound to name fails with the
\* not-found error, invokes nothing and leaves the registry as it was;
\* otherwise it invokes the callable bound to name once, with args, and its
\* outcome is the callable's: the value unchanged, a fault unwrapped.
C9_CallTool ==
    /\ [](last_call.made =>
            IF last_call.bound
            THEN /\ last_call.invoked = <<[fn |-> last_call.fn, args |-> last_call.args]>>
                 /\ last_call.outcome = last_call.backend
            ELSE /\ last_call.invoked = <<>>
                 /\ last_call.outcome
                        = Raised(Fault("ValueError",
                                       <<"Tool '">> \o last_call.name \o <<"' not found">>)))
    /\ [][last_call' # last_call => UNCHANGED registry]_vars

C9_Witness ==
    /\ last_call.made /\ last_call.bound
    /\ last_call.outcome.kind = "raise"
    /\ last_call.invoked # <<>>

\* C10: the sequence get_tools handed out keeps the entries it had then,
\* whatever add_tool and close do afterwards.
C10_Snapshot == handle.given => Contents(handle) = handle.snap

\* C11: a call works on the registry as it was at its start: a binding of
\* its context, made for a tool registered then, still reaches a callable
\* when the snippet invokes it, whatever add_tool and close did while the
\* call was suspended.
C11_Snapshot ==
    [][\A r \in Runs : Invokes(r) => Len(run'[r].calls) = Len(run[r].calls) + 1]_vars

\* the step in which call r starts
Starts(r) == run[r].pc = "idle" /\ run'[r].pc # "idle"

\* C12: close leaves the tool list, the name->callable mapping and the
\* interface cache empty, and a call that starts while nothing is registered
\* sees no capability: its context binds no tool function and its
\* __interfaces text is the header alone.
C12_AfterClose ==
    [][/\ (added # <<>> /\ added' = <<>>)
            => tools' = <<>> /\ tool_functions' = EmptyMap /\ tool_interface_cache' = EmptyMap
       /\ \A r \in Runs :
            (Starts(r) /\ tools = <<>>)
                => /\ run'[r].pc = "ready"
                   /\ CallablePaths(run'[r].context, modules') = {}
                   /\ run'[r].interfaces = Header]_vars

Count(seq, x) == Cardinality({i \in 1..Len(seq) : seq[i] = x})

\* the same entries, each as many times, in whatever order
SameEntries(s, t) ==
    /\ Len(s) = Len(t)
    /\ \A i \in 1..Len(s) : Count(s, s[i]) = Count(t, s[i])

\* C13: logs keep arrival order: when the returned logs hold the lines of
\* the snippet's writes (print, sys.stdout, sys.stderr), they hold them in
\* the order of the writes.
C13_ArrivalOrder ==
    \A r \in Runs :
        (run[r].pc = "returned" /\ run[r].ended = "return"
            /\ SameEntries(run[r].response.logs, Entries(run[r].written)))
            => run[r].response.logs = Entries(run[r].written)

\* a log entry that is one non-blank line without trailing whitespace
IsLine(e) ==
    /\ e # <<>> /\ e # <<"[ERROR] ">>
    /\ e[Len(e)] \notin {" ", "\n"}
    /\ \A k \in 1..Len(e) : e[k] # "\n"

\* C14: each captured write becomes log entries line by line: every entry
\* of the returned logs is one line of a write, trailing whitespace removed,
\* and none is empty (a blank write or line gives no entry).
C14_LineByLine ==
    \A r \in Runs :
        run[r].pc = "returned"
            => \A i \in 1..Len(run[r].response.logs) : IsLine(run[r].response.logs[i])

\* the log lines of the print calls among the writes ws
RECURSIVE Printed(_)
Printed(ws) ==
    IF ws = <<>> THEN <<>>
    ELSE (IF Head(ws).chan = "console" /\ RStrip(Head(ws).text) # <<>>
          THEN <<RStrip(Head(ws).text)>> ELSE <<>>) \o Printed(Tail(ws))

\* the text the writes ws sent to one channel
RECURSIVE Sent(_, _)
Sent(ws, chan) ==
    IF ws = <<>> THEN <<>>
    ELSE (IF Head(ws).chan = chan THEN Head(ws).text ELSE <<>>) \o Sent(Tail(ws), chan)

\* the logs of a call that makes the writes ws while no other call runs
AloneLogs(ws) ==
    ExtendLogs(ExtendLogs(Printed(ws), Sent(ws, "stdout"), <<>>), Sent(ws, "stderr"),
               <<"[ERROR] ">>)

\* C15: with calls in progress together, the logs a call returns are the
\* lines of its own snippet's writes, all of them and no others: the logs it
\* would return for the same writes with no other call running.
C15_OwnLogs ==
    \A r \in Calls :
        (run[r].pc = "returned" /\ run[r].ended = "return")
            => run[r].response.logs = AloneLogs(run[r].written)

\* the step in which a client's tool_to_python_interface call returns
DescribeStep ==
    /\ last_describe' # last_describe
    /\ last_describe'.op = "describe"
    /\ last_describe'.tool.name \in DOMAIN last_describe'.shown

\* C16: tool_to_python_interface is idempotent: a call for a name returns
\* the text the first call for that name since the last close returned, also
\* when the Tool passed has another description, other schemas or tags.
C16_Idempotent ==
    [][(DescribeStep /\ last_describe'.tool.name \in DOMAIN last_describe.shown)
           => last_describe'.text = last_describe.shown[last_describe'.tool.name]]_vars

C16_Witness ==
    /\ last_describe.op = "describe" /\ last_describe.tool = NsF2
    /\ last_describe.text = InterfaceString(NsF1)
    /\ InterfaceString(NsF1) # InterfaceString(NsF2)
    /\ tools = <<>>

\* the step of close
CloseStep ==
    /\ tools' = <<>> /\ tool_functions' = EmptyMap /\ tool_interface_cache' = EmptyMap
    /\ added' = <<>>
    /\ UNCHANGED <<run, handle, last_call>>

\* C17: the interface cache is write-once per name and only close
\* invalidates it: no step but close changes or removes an entry, close
\* empties it, and tool_to_python_interface returns the cached text of the
\* name whatever Tool is passed, or else the text generated from the Tool
\* passed, which it caches.
C17_WriteOnce ==
    [][/\ \/ \A n \in DOMAIN tool_interface_cache :
                /\ n \in DOMAIN tool_interface_cache'
                /\ tool_interface_cache'[n] = tool_interface_cache[n]
          \/ CloseStep
       /\ (added # <<>> /\ added' = <<>>) => tool_interface_cache' = EmptyMap
       /\ DescribeStep
            => /\ last_describe'.text
                    = IF last_describe'.tool.name \in DOMAIN tool_interface_cache
                      THEN tool_interface_cache[last_describe'.tool.name]
                      ELSE InterfaceString(last_describe'.tool)
               /\ last_describe'.tool.name \in DOMAIN tool_interface_cache'
               /\ tool_interface_cache'[last_describe'.tool.name] = last_describe'.text]_vars

C17_Witness ==
    /\ \E i \in 1..Len(tools) : tools[i] = NsF2
    /\ last_describe.op = "describe" /\ last_describe.tool = NsF2
    /\ last_describe.text = InterfaceString(NsF1)
    /\ NsF \in DOMAIN tool_interface_cache
    /\ tool_interface_cache[NsF] = InterfaceString(NsF1)

\* the step in which a client's get_all_tools_python_interfaces call returns
DescribeAllStep ==
    /\ last_describe'.op = "describe_all"
    /\ UNCHANGED <<tools, tool_functions, added, run>>
    /\ last_describe'.shown = last_describe.shown
    /\ last_describe' # last_describe \/ tool_interface_cache' # tool_interface_cache

\* header, then the blocks with an empty line between two of them
RECURSIVE Blocks(_)
Blocks(bs) ==
    IF bs = <<>> THEN <<>>
    ELSE IF Len(bs) = 1 THEN bs[1]
    ELSE bs[1] \o <<"\n\n">> \o Blocks(Tail(bs))

\* C18: the text of get_all_tools_python_interfaces is the fixed header and
\* then one block per entry of the tool list, in registration order, each
\* the text tool_to_python_interface gives for that entry; with no tool
\* registered it is the header alone.
C18_DescribeAll ==
    [][DescribeAllStep
          => /\ \A i \in 1..Len(tools) : tools[i].name \in DOMAIN tool_interface_cache'
             /\ last_describe'.text
                    = <<"# Auto-generated Python interfaces for UTCP tools\n">>
                          \o Blocks([i \in 1..Len(tools) |-> tool_interface_cache'[tools[i].name]])
             /\ tools = <<>>
                    => last_describe'.text
                           = <<"# Auto-generated Python interfaces for UTCP tools\n">>]_vars

C18_Witness ==
    /\ last_describe.op = "describe_all"
    /\ Len(tools) = 2 /\ tools[1].name # tools[2].name
    /\ {tools[1].name, tools[2].name} \subseteq DOMAIN tool_interface_cache
    /\ last_describe.text
           = Header \o tool_interface_cache[tools[1].name] \o <<"\n\n">>
                 \o tool_interface_cache[tools[2].name]

\* the index of the last add_tool call since the last close that gave name n
LastAdded(n) ==
    CHOOSE i \in 1..Len(added) :
        /\ added[i].tool.name = n
        /\ \A j \in (i + 1)..Len(added) : added[j].tool.name # n

\* C19: after any sequence of add_tool and close calls the tool list is the
\* tools added since the last close, in order, an entry per call (also for a
\* name given twice); the mapping binds each of their names to the callable
\* of the most recent call that gave it; the names of the list are the names
\* bound.
C19_ListAndMapping ==
    /\ Len(tools) = Len(added)
    /\ \A i \in 1..Len(added) : tools[i] = added[i].tool
    /\ DOMAIN tool_functions = {added[i].tool.name : i \in 1..Len(added)}
    /\ \A n \in DOMAIN tool_functions : tool_functions[n] = added[LastAdded(n)].fn
    /\ {tools[i].name : i \in 1..Len(tools)} = DOMAIN tool_functions

C19_Witness ==
    /\ Len(added) = 2
    /\ added[1].tool.name = added[2].tool.name
    /\ added[1].fn = "f1" /\ added[2].fn = "f2"
    /\ Len(tools) = 2
    /\ tool_functions[tools[1].name] = "f2"

\* a step of a call of call_tool_chain: its start, a step of its snippet, its end
RunStep == run' # run

\* C20: a call of call_tool_chain, whatever its outcome, leaves the tool list
\* and the mapping of callables as they were, and changes the interface
\* cache only by adding entries for names that had none.
C20_RunKeepsRegistry ==
    [][RunStep
          => /\ tools' = tools
             /\ tool_functions' = tool_functions
             /\ \A n \in DOMAIN tool_interface_cache :
                    /\ n \in DOMAIN tool_interface_cache'
                    /\ tool_interface_cache'[n] = tool_interface_cache[n]]_vars

\* a call set up with one tool has ended, and its snippet's
\* __get_tool_interface gave the cache the entry of a tool added meanwhile
C20_Witness ==
    /\ run[1].pc \in {"returned", "raised"}
    /\ Len(tools) = 2 /\ tools[1].name \in DOMAIN tool_interface_cache
    /\ run[1].interfaces = Header \o tool_interface_cache[tools[1].name]
    /\ run[1].looked.text # None
    /\ run[1].looked.name \in DOMAIN tool_interface_cache
    /\ Len(tools) = 2 /\ tools[1].name # tools[2].name
    /\ {tools[1].name, tools[2].name} = DOMAIN tool_interface_cache
    /\ run[1].looked.name = tools[2].name

\* the step in which the snippet of call r calls __get_tool_interface
Looks(r) == run'[r].steps = run[r].steps + 1 /\ run'[r].looked # run[r].looked

\* C21: inside a call the two introspection entries agree with the
\* generator: __interfaces is the text get_all_tools_python_interfaces gives
\* for the tools at setup, and __get_tool_interface gives, for the name of a
\* registered tool, the text tool_to_python_interface gives for it, and None
\* for a name that is not registered.
C21_Introspection ==
    [][\A r \in Runs :
          /\ (Starts(r) /\ run'[r].pc = "ready")
                => /\ run'[r].context[<<"__interfaces">>].kind = "str"
                   /\ run'[r].interfaces
                          = Header \o Blocks([i \in 1..Len(tools) |->
                                                  tool_interface_cache'[tools[i].name]])
          /\ Looks(r)
                => run'[r].looked.text
                       = IF \E i \in 1..Len(tools) : tools[i].name = run'[r].looked.name
                         THEN tool_interface_cache'[run'[r].looked.name]
                         ELSE None]_vars

\* C22: once the timeout of a call has elapsed its snippet is stopped where
\* it is suspended: the only step the call still takes is its return, and
\* the snippet invokes no tool and writes no line any more, whatever handlers
\* it has around its awaits.
C22_StoppedAtTimeout ==
    [][\A r \in Runs :
          (run[r].timer = "fired" /\ run'[r] # run[r])
              => /\ run'[r].pc \in {"returned", "raised", "idle"}
                 /\ Len(run'[r].asked) <= Len(run[r].asked)
                 /\ Len(run'[r].written) <= Len(run[r].written)]_vars

\* C23: whatever the names of the registered tools, the context built for a
\* call holds every entry of the context literal (print, len, ..., json,
\* asyncio, __interfaces, __get_tool_interface) with its own value: binding
\* the tools replaces none of them and alters none of the objects they name.
C23_BaseKept ==
    [][\A r \in Runs :
          Starts(r)
              => /\ run'[r].pc = "ready"
                 /\ \A k \in DOMAIN BaseContext : run'[r].context[k] = BaseContext[k]
                 /\ modules' = modules]_vars

\* the namespace objects of a context
Containers(context) == {k \in DOMAIN context : context[k].kind = "ns"}

\* C24: the binder makes one namespace object per distinct sanitized first
\* segment of the dotted names, and every registered tool is callable under
\* its own sanitized path by a binding that forwards to its own name, also
\* when two names meet in one namespace only after sanitization.
C24_OwnBinding ==
    [][\A r \in Runs :
          (Starts(r) /\ run'[r].pc = "ready")
              => /\ Containers(run'[r].context)
                        = {ManualName(tools[i].name) :
                               i \in {j \in 1..Len(tools) : HasDot(tools[j].name)}}
                 /\ \A i \in 1..Len(tools) :
                        /\ BindingPath(tools[i].name)
                               \in CallablePaths(run'[r].context, modules')
                        /\ Target(run'[r].context, modules', BindingPath(tools[i].name))
                               = tools[i].name]_vars

\* C25: the context is per call: building it alters no object outside it,
\* and what a call can invoke is what its own setup bound for the tools
\* registered then, nothing an earlier or concurrent call left behind.
C25_PerCall ==
    [][\A r \in Runs :
          Starts(r)
              => /\ modules' = modules
                 /\ run'[r].pc = "ready"
                        => CallablePaths(run'[r].context, modules')
                               = {BindingPath(tools[i].name) : i \in 1..Len(tools)}]_vars

\* C26: when every call of call_tool_chain has returned, however the calls
\* were interleaved, sys.stdout and sys.stderr are the streams of the
\* process again: no call's capture buffer is left installed.
C26_StreamsRestored ==
    (\A r \in Calls : ~InProgress(r)) => sys_stdout = Console /\ sys_stderr = Console

\* C27: the list of logs belongs to one call and is not kept: once
\* call_tool_chain has returned, the logs it returned do not change,
\* whatever the outcome and whatever work the snippet left scheduled.
C27_LogsFinal ==
    [][\A r \in Runs :
          (run[r].pc = "returned" /\ run'[r].pc = "returned")
              => run'[r].response.logs = run[r].response.logs]_vars

\* the position of the last token tok in text (0: none)
LastIndex(text, tok) ==
    IF \E i \in 1..Len(text) : text[i] = tok
    THEN CHOOSE i \in 1..Len(text) :
             text[i] = tok /\ \A j \in (i + 1)..Len(text) : text[j] # tok
    ELSE 0

\* the position of the first token tok in text (0: none)
FirstIndex(text, tok) ==
    IF \E i \in 1..Len(text) : text[i] = tok
    THEN CHOOSE i \in 1..Len(text) : text[i] = tok /\ \A j \in 1..(i - 1) : text[j] # tok
    ELSE 0

\* the path of the last comment line of an interface text,
\* "# Access as: <path>(**kwargs)", as its dot-separated pieces
AccessPath(text) ==
    Split(SubSeq(text, LastIndex(text, "\n# Access as: ") + 1, Len(text) - 1), ".")

\* the identifiers an interface text declares: class <namespace> and
\* async def <leaf>, or async def <name> alone
DeclaredPath(text) ==
    IF text[1] = "\nclass "
    THEN LET d == FirstIndex(text, ":\n    async def ")
             e == FirstIndex(text, "(self, **kwargs) -> dict:\n        \"\"\"\n        ")
         IN  <<SubSeq(text, 2, d - 1), SubSeq(text, d + 1, e - 1)>>
    ELSE LET e == FirstIndex(text, "(**kwargs) -> dict:\n    \"\"\"\n    ")
         IN  <<SubSeq(text, 2, e - 1)>>

C29_Identifier ==
    applied.fn \in {"_sanitize_identifier", "again"}
        => /\ applied.out # <<>>
           /\ applied.out[1] \in {"a", "_"}
           /\ \A i \in 1..Len(applied.out) : applied.out[i] \in {"a", "_", "1"}
           /\ Len(applied.out) \in {Len(applied.arg), Len(applied.arg) + 1}
           /\ applied.fn = "again" => applied.out = applied.arg

\* the fixed table of type names
TypeTable ==
    [t \in {"string", "number", "integer", "boolean", "array", "object", "null"} |->
        CASE t = "string" -> "str" [] t = "number" -> "float" [] t = "integer" -> "int"
          [] t = "boolean" -> "bool" [] t = "array" -> "list" [] t = "object" -> "dict"
          [] t = "null" -> "None"]

MappedName(t) == IF t \in DOMAIN TypeTable THEN TypeTable[t] ELSE "Any"

\* the union of the mapped names of the members of a type list, in order
RECURSIVE UnionOf(_)
UnionOf(ts) ==
    IF ts = <<>> THEN <<>>
    ELSE IF Len(ts) = 1 THEN <<MappedName(ts[1])>>
    ELSE <<MappedName(ts[1]), " | ">> \o UnionOf(Tail(ts))

\* C30: the type of a property schema: str for a schema with an enum,
\* whatever its type and the values listed; otherwise, for a list of types,
\* the mapped names of its members joined as a union in order; otherwise the
\* table's name for a known type, and Any for an absent or unknown one.
C30_TypeMapping ==
    applied.fn = "_json_type_to_python"
        => applied.out
               = IF "enum" \in applied.arg.keys THEN <<"str">>
                 ELSE IF applied.arg.type_list THEN UnionOf(applied.arg.type)
                 ELSE IF "type" \in applied.arg.keys
                      THEN <<MappedName(applied.arg.type[1])>>
                 ELSE <<"Any">>

\* a schema of type 'object' that declares properties
ListsProperties(schema) ==
    /\ "type" \in schema.keys /\ ~schema.type_list /\ schema.type = <<"object">>
    /\ schema.properties # <<>>

\* the one-line sections given instead of a list
Fallbacks(section_name) ==
    {<<section_name, ":\n            Any">>,
     <<section_name, ":\n            dict: Any dictionary">>}

\* line is the line of property p: indentation, the name, " (type)", the
\* marker exactly when p is not in required, ": " and the description
IsLineOf(line, p, required) ==
    LET head == <<"            ">> \o p.name \o <<" (">>
        optional == \A i \in 1..Len(required) : required[i] # p.name
    IN  /\ Len(line) >= Len(head) + 3
        /\ SubSeq(line, 1, Len(head)) = head
        /\ line[Len(head) + 2] = ")"
        /\ IF optional
           THEN line[Len(head) + 3] = " (optional)" /\ line[Len(head) + 4] = ": "
           ELSE line[Len(head) + 3] = ": "
        /\ Count(line, " (optional)") = (IF optional THEN 1 ELSE 0)

\* C31: the section of an object schema with properties is its heading and
\* then one line per declared property, in the schema's insertion order,
\* each marked (optional) exactly when its name is not in the required
\* list; a schema that is not of type object, or declares no property,
\* gives a one-line fallback section.
C31_Section ==
    applied.fn = "_json_schema_to_python_docstring"
        => LET schema == applied.arg.schema
               lines == Split(applied.out, "\n")
           IN  IF ListsProperties(schema)
               THEN /\ lines[1] = <<applied.arg.section_name, ":">>
                    /\ Len(lines) = 1 + Len(schema.properties)
                    /\ \A i \in 1..Len(schema.properties) :
                           IsLineOf(lines[i + 1], schema.properties[i], schema.required)
               ELSE applied.out \in Fallbacks(applied.arg.section_name)

\* a section with two properties, the second one required and listed first
\* in required, the first one optional
C31_Witness ==
    /\ applied.fn = "_json_schema_to_python_docstring"
    /\ Len(applied.arg.schema.properties) = 2
    /\ applied.arg.schema.properties[1].name = <<"b">>
    /\ applied.arg.schema.properties[2].name = <<"a">>
    /\ applied.arg.schema.required = <<<<"a">>>>
    /\ Len(Split(applied.out, "\n")) = 3
    /\ Count(applied.out, " (optional)") = 1

====
